---- MODULE Spec2Model ----
(***************************************************************************)
(* pkg-fetch, patches/node.v14.16.0.cpp.patch: the sourceless-bytecode     *)
(* changes to V8 and to node's script host binding (ContextifyScript::New) *)
(* and the argv relay launcher of node_main.cc (reorder).                  *)
(*                                                                         *)
(* Spec        the engine and the host binding (Compile, garbage collector)*)
(* SpecFlags   the flag controller alone, with a log of the calls made     *)
(* SpecSanity  SanityCheck alone, on two blobs                             *)
(* SpecLaunch  the launcher and the bootstrap loader pkg.js                *)
(* SpecHeap    the engine's heap with the queries on a function            *)
(* SpecCache   the compiler's script entry alone, with a log of compiles   *)
(* SpecSlots   the launcher alone, with marker blocks full of options      *)
(* SpecBuild   build() of lib/build.ts                                     *)
(***************************************************************************)
EXTENDS Integers, Sequences, FiniteSets, TLC

VARIABLES
  FLAG_lazy,          \* i::FLAG_lazy
  FLAG_predictable,   \* i::FLAG_predictable
  save_lazy,          \* api.cc global, the snapshot slot
  save_predictable,   \* api.cc global, the snapshot slot
  flag_hash,          \* the value FlagList::Hash() returns
  scripts,            \* heap of i::Script objects with their top-level function
  compilation_cache,  \* the isolate's compilation cache: source -> script id
  units,              \* the ContextifyScript objects handed to callers
  pc,                 \* position inside ContextifyScript::New
  call,               \* the frame of the running ContextifyScript::New
  ret,                \* outcome of the last finished call into the engine
  log,                \* SpecFlags: the controller calls made, flags before each
  argc,               \* launcher: main's argc
  argv,               \* launcher: main's argv
  PKG_EXECPATH,       \* launcher: the environment variable
  BAKERY,             \* launcher: the marker block, a run of bytes
  lpc,                \* launcher: position
  nargv,              \* launcher: the array reorder fills
  c,                  \* launcher: reorder's write index
  started,            \* launcher: what node::Start received
  relays,             \* launcher: times the process was started again by itself
  process_argv,       \* loader: process.argv
  process_execArgv,   \* loader: process.execArgv
  _alreadyPrepared,   \* loader: the guard of prepareMainThreadExecution
  prepared,           \* loader: history of prepareMainThreadExecution's calls
  fs,                 \* loader: the two properties pkg.js sets on require('fs')
  image,              \* loader: the executable's bytes and the four literals
  boot,               \* loader: what pkg.js has done
  sanity,             \* SpecSanity: two invocations of SanityCheck
  build               \* SpecBuild: one run of build() of build.ts

engineVars == <<FLAG_lazy, FLAG_predictable, save_lazy, save_predictable,
                flag_hash, scripts, compilation_cache, units, pc, call, ret>>
launchVars == <<argc, argv, PKG_EXECPATH, BAKERY, lpc, nargv, c, started>>
loaderVars == <<relays, process_argv, process_execArgv, _alreadyPrepared,
                prepared, fs, image, boot>>
otherVars == <<log, launchVars, loaderVars, sanity, build>>
vars == <<engineVars, log, launchVars, loaderVars, sanity, build>>

-----------------------------------------------------------------------------
(* Bounds of the model.                                                    *)

MaxUnits == 2
MaxLog == 4

-----------------------------------------------------------------------------
(* Values.                                                                 *)

\* The undefined value FixSourcelessScript stores in a script's source slot.
Undefined == "<undefined>"

\* Source texts given to Compile: "!" does not parse.
Sources == {"", "a", "!"}

Parses(source) == source # "!"

\* The bytecode the compiler generates for a source text.
Bytecode(source) ==
  CASE source = "" -> <<0>>
    [] source = "a" -> <<1>>
    [] OTHER -> <<>>

NoBlob == [kind |-> "none"]
NoScript == 0

-----------------------------------------------------------------------------
(* The serialized code cache (code-serializer.cc).                         *)

kMagicNumber == "kMagicNumber"

\* Version::Hash() of the running engine.
VersionHash == "v8-8.4"

\* FlagList::Hash(): the hash of the flag values the engine started with.
FlagHashOf(lazy, predictable) ==
  (IF lazy THEN 0 ELSE 1) + (IF predictable THEN 2 ELSE 0)

\* SerializedCodeData::SourceHash: the length of the source text.
SourceHash(source) == Len(source)

RECURSIVE SumBytes(_)
SumBytes(bytes) ==
  IF bytes = <<>> THEN 0 ELSE Head(bytes) + SumBytes(Tail(bytes))

Checksum(payload) == SumBytes(payload) + Len(payload)

\* The blob CreateCodeCache builds for a compiled script under a flag hash.
SerializedCodeData(payload, source_hash, hash) ==
  [kind |-> "blob",
   magic |-> kMagicNumber,
   version_hash |-> VersionHash,
   source_hash |-> source_hash,
   flags_hash |-> hash,
   payload_length |-> Len(payload),
   checksum |-> Checksum(payload),
   payload |-> payload]

\* The tail of SanityCheck: the payload-length bound and the checksum.
PayloadCheck(blob) ==
  IF blob.payload_length > Len(blob.payload) THEN "LENGTH_MISMATCH"
  ELSE IF Checksum(blob.payload) # blob.checksum THEN "CHECKSUM_MISMATCH"
  ELSE "CHECK_SUCCESS"

\* The check before the patch: it also compared the source hash.
SanityCheckWithSourceHash(blob, expected_source_hash, current_flag_hash) ==
  IF blob.magic # kMagicNumber THEN "MAGIC_NUMBER_MISMATCH"
  ELSE IF blob.version_hash # VersionHash THEN "VERSION_MISMATCH"
  ELSE IF blob.source_hash # expected_source_hash THEN "SOURCE_MISMATCH"
  ELSE IF blob.flags_hash # current_flag_hash THEN "FLAGS_MISMATCH"
  ELSE PayloadCheck(blob)

\* SerializedCodeData::SanityCheck(expected_source_hash) as patched: the source
\* hash of the header is neither read nor compared.
SanityCheck(blob, expected_source_hash, current_flag_hash) ==
  IF blob.magic # kMagicNumber THEN "MAGIC_NUMBER_MISMATCH"
  ELSE IF blob.version_hash # VersionHash THEN "VERSION_MISMATCH"
  ELSE IF blob.flags_hash # current_flag_hash THEN "FLAGS_MISMATCH"
  ELSE PayloadCheck(blob)

SanityCheckResults ==
  {"MAGIC_NUMBER_MISMATCH", "VERSION_MISMATCH", "FLAGS_MISMATCH",
   "LENGTH_MISMATCH", "CHECKSUM_MISMATCH", "CHECK_SUCCESS"}

-----------------------------------------------------------------------------
(* Scripts and the accessors that look at a script's source.               *)

\* A freshly created script with its compiled top-level function.
NewScript(source, bytecode) ==
  [source |-> source, data |-> bytecode]

\* function_data after a flush: UncompiledData, no bytecode array.
Uncompiled == <<-1>>

IsBytecodeArray(data) == data # Uncompiled

FlushModes == {"kFlushBytecode", "kStressFlushBytecode"}

\* The query as it is without the patch: no look at the script's source.
ShouldFlushBytecodeUnpatched(script, mode, is_old) ==
  IF ~IsBytecodeArray(script.data) THEN FALSE
  ELSE IF mode = "kStressFlushBytecode" THEN TRUE
  ELSE is_old

\* SharedFunctionInfo::ShouldFlushBytecode(mode), from its read of function_data;
\* is_old is the age test of the bytecode array that ends it.
ShouldFlushBytecode(script, mode, is_old) ==
  IF ~IsBytecodeArray(script.data) THEN FALSE
  ELSE IF script.source = Undefined THEN FALSE
  ELSE IF mode = "kStressFlushBytecode" THEN TRUE
  ELSE is_old

\* A transform that stores the empty string instead of undefined.
FixSourcelessScriptEmpty(heap, id) ==
  [heap EXCEPT ![id].source = ""]

\* V8::FixSourcelessScript: script->set_source(undefined_value).
FixSourcelessScript(heap, id) ==
  [heap EXCEPT ![id].source = Undefined]

-----------------------------------------------------------------------------
(* The compilation flag controller (api.cc).                               *)

Flags == [lazy : BOOLEAN, predictable : BOOLEAN,
          save_lazy : BOOLEAN, save_predictable : BOOLEAN]

CurrentFlags ==
  [lazy |-> FLAG_lazy, predictable |-> FLAG_predictable,
   save_lazy |-> save_lazy, save_predictable |-> save_predictable]

\* An Enable that leaves lazy compilation on.
EnableKeepsLazy(f) ==
  [f EXCEPT !.save_lazy = f.lazy, !.save_predictable = f.predictable,
            !.predictable = TRUE]

\* An Enable that takes no second snapshot while the flags are already in
\* the state an Enable leaves them in.
EnableKeepsOuterSnapshot(f) ==
  IF ~f.lazy /\ f.predictable
    THEN f
    ELSE [f EXCEPT !.save_lazy = f.lazy, !.lazy = FALSE,
                   !.save_predictable = f.predictable, !.predictable = TRUE]

\* V8::EnableCompilationForSourcelessUse
EnableCompilationForSourcelessUse(f) ==
  [f EXCEPT !.save_lazy = f.lazy, !.lazy = FALSE,
            !.save_predictable = f.predictable, !.predictable = TRUE]

\* A Disable that restores the two flags crosswise.
DisableSwapped(f) ==
  [f EXCEPT !.lazy = f.save_predictable, !.predictable = f.save_lazy]

\* V8::DisableCompilationForSourcelessUse
DisableCompilationForSourcelessUse(f) ==
  [f EXCEPT !.lazy = f.save_lazy, !.predictable = f.save_predictable]

SetFlags(f) ==
  /\ FLAG_lazy' = f.lazy
  /\ FLAG_predictable' = f.predictable
  /\ save_lazy' = f.save_lazy
  /\ save_predictable' = f.save_predictable

-----------------------------------------------------------------------------
(* Compiler::GetSharedFunctionInfoForScript around the patched test.       *)

\* The isolate's compilation cache, a function from source text to script id.
LookupScript(cache, source) ==
  IF source \in DOMAIN cache THEN cache[source] ELSE NoScript

PutScript(cache, source, id) ==
  [s \in DOMAIN cache \cup {source} |-> IF s = source THEN id ELSE cache[s]]

\* if (!maybe_result.is_null() && source_length)
IsCacheHit(found, source_length) == found # NoScript /\ source_length # 0

\* The result of the compile: the script (NoScript when the compile failed),
\* whether the supplied cache was rejected, the heap and the cache after it.
GetSharedFunctionInfoForScript(source, cached_data, can_consume_code_cache, heap, cache, hash) ==
  LET found == LookupScript(cache, source)
      fresh == Len(heap) + 1
      base == [result |-> found, rejected |-> FALSE,
               consumed |-> FALSE, heap |-> heap, cache |-> cache]
      \* no result so far: compile the source text
      FromSource(r) ==
        IF r.result # NoScript THEN r
        ELSE IF ~Parses(source) THEN r
        ELSE [r EXCEPT !.result = fresh,
                       !.heap = Append(heap, NewScript(source, Bytecode(source))),
                       !.cache = PutScript(cache, source, fresh)]
  IN IF IsCacheHit(found, Len(source)) THEN base
     ELSE IF can_consume_code_cache
       THEN IF SanityCheck(cached_data, SourceHash(source), hash) = "CHECK_SUCCESS"
              THEN [base EXCEPT
                      !.result = fresh,
                      !.consumed = TRUE,
                      !.heap = Append(heap, NewScript(source, cached_data.payload)),
                      !.cache = PutScript(cache, source, fresh)]
              ELSE FromSource([base EXCEPT !.rejected = TRUE])
       ELSE FromSource(base)

-----------------------------------------------------------------------------
(* The script host binding: lib/vm.js and ContextifyScript::New.           *)

\* Values a caller may give as options.sourceless ("1" is truthy, not true).
JsValues == {"true", "false", "undefined", "1"}

\* vm.js: const { ..., sourceless = false } = options
ScriptOptionSourceless(given) == IF given = "undefined" THEN "false" ELSE given

\* args[7]->IsTrue()
IsTrue(value) == value = "true"

\* Boolean::New
BooleanNew(b) == IF b THEN "true" ELSE "false"

\* A blob written by another process of this engine from the source "a", and
\* the same blob written under another flag configuration.
ForeignBlobs ==
  LET good == SerializedCodeData(Bytecode("a"), SourceHash("a"), flag_hash)
  IN { good, [good EXCEPT !.flags_hash = (flag_hash + 1) % 4] }

\* Blobs this process produced and handed to a caller.
ProducedBlobs ==
  { units[k].cachedData : k \in 1..Len(units) } \ {NoBlob}

CachedDataInputs == {NoBlob} \cup ProducedBlobs \cup ForeignBlobs

IdleCall ==
  [code |-> "", cached_data |-> NoBlob, produce_cached_data |-> FALSE,
   sourceless |-> FALSE, compile_options |-> "kNoCompileOptions",
   rejected |-> FALSE, consumed |-> FALSE, v8_script |-> NoScript,
   entry_lazy |-> FALSE, entry_predictable |-> FALSE]

NoReturn == [status |-> "none", unit |-> 0, error |-> "none"]

NoSanity ==
  [stage |-> "off", blobA |-> NoBlob, sourceA |-> "", resultA |-> "none",
   blobB |-> NoBlob, sourceB |-> "", resultB |-> "none"]

\* Entry of ContextifyScript::New up to the compile: the arguments, the
\* compile options, and Enable for a sourceless cache-producing compile.
New(code, cached_data, produce_cached_data, given_sourceless) ==
  LET sourceless == IsTrue(ScriptOptionSourceless(given_sourceless))
  IN /\ pc = "idle"
     /\ Len(units) < MaxUnits
     /\ call' = [IdleCall EXCEPT
                   !.code = code,
                   !.cached_data = cached_data,
                   !.produce_cached_data = produce_cached_data,
                   !.sourceless = sourceless,
                   !.compile_options =
                      IF cached_data # NoBlob THEN "kConsumeCodeCache"
                      ELSE "kNoCompileOptions",
                   !.entry_lazy = FLAG_lazy,
                   !.entry_predictable = FLAG_predictable]
     /\ IF sourceless /\ produce_cached_data
          THEN SetFlags(EnableCompilationForSourcelessUse(CurrentFlags))
          ELSE UNCHANGED <<FLAG_lazy, FLAG_predictable,
                           save_lazy, save_predictable>>
     /\ pc' = "compile"
     /\ ret' = NoReturn
     /\ UNCHANGED <<flag_hash, scripts, compilation_cache, units>>
     /\ UNCHANGED otherVars

\* ScriptCompiler::CompileUnboundScript(isolate, &source, compile_options)
CompileUnboundScript ==
  /\ pc = "compile"
  /\ LET r == GetSharedFunctionInfoForScript(
                call.code, call.cached_data,
                call.compile_options = "kConsumeCodeCache",
                scripts, compilation_cache, flag_hash)
     IN /\ scripts' = r.heap
        /\ compilation_cache' = r.cache
        /\ call' = [call EXCEPT !.v8_script = r.result,
                                !.rejected = r.rejected,
                                !.consumed = r.consumed]
  /\ pc' = "check"
  /\ UNCHANGED <<FLAG_lazy, FLAG_predictable, save_lazy, save_predictable,
                 flag_hash, units, ret>>
  /\ UNCHANGED otherVars

\* if (v8_script.IsEmpty()) { ...ReThrow(); return; }
CompileFailed ==
  /\ pc = "check"
  /\ call.v8_script = NoScript
  /\ ret' = [status |-> "threw", unit |-> 0, error |-> "SyntaxError"]
  /\ pc' = "idle"
  /\ call' = IdleCall
  /\ UNCHANGED <<FLAG_lazy, FLAG_predictable, save_lazy, save_predictable,
                 flag_hash, scripts, compilation_cache, units>>
  /\ UNCHANGED otherVars

\* A test that forgets to ask for sourceless.
AppliesFixToAnyConsumer(frame) ==
  /\ frame.compile_options = "kConsumeCodeCache"
  /\ ~frame.rejected

\* A test that asks for a cache-producing compile instead of a consuming one.
AppliesFixOnProduce(frame) ==
  /\ frame.sourceless
  /\ frame.produce_cached_data
  /\ ~frame.rejected

\* Whether New applies the transform to the compiled script.
AppliesFix(frame) ==
  /\ frame.sourceless
  /\ frame.compile_options = "kConsumeCodeCache"
  /\ ~frame.rejected

\* if (sourceless && compile_options == kConsumeCodeCache) { if (!rejected) Fix }
FixIfSourceless ==
  /\ pc = "check"
  /\ call.v8_script # NoScript
  /\ scripts' = IF AppliesFix(call)
                  THEN FixSourcelessScript(scripts, call.v8_script)
                  ELSE scripts
  /\ pc' = "reset"
  /\ UNCHANGED <<FLAG_lazy, FLAG_predictable, save_lazy, save_predictable,
                 flag_hash, compilation_cache, units, call, ret>>
  /\ UNCHANGED otherVars

\* contextify_script->script_.Reset(isolate, v8_script.ToLocalChecked())
ResetScript ==
  /\ pc = "reset"
  /\ units' = Append(units,
                [script |-> call.v8_script,
                 sourceless |-> call.sourceless,
                 cachedDataRejected |-> "unset",
                 cachedDataProduced |-> "unset",
                 cachedData |-> NoBlob])
  /\ pc' = "cache"
  /\ UNCHANGED <<FLAG_lazy, FLAG_predictable, save_lazy, save_predictable,
                 flag_hash, scripts, compilation_cache, call, ret>>
  /\ UNCHANGED otherVars

\* The source hashes CreateCodeCache can write: it reads the script's source
\* as a string, which it is not once the source is undefined.
CodeCacheSourceHashes(script) ==
  IF script.source = Undefined THEN {0, 1} ELSE {SourceHash(script.source)}

\* if (consume) set cachedDataRejected; else if (produce) CreateCodeCache
SetCacheProperties ==
  /\ pc = "cache"
  /\ LET k == Len(units)
         script == scripts[call.v8_script]
     IN IF call.compile_options = "kConsumeCodeCache"
          THEN units' = [units EXCEPT
                 ![k].cachedDataRejected = BooleanNew(call.rejected)]
          ELSE IF call.produce_cached_data
            THEN \E h \in CodeCacheSourceHashes(script) :
                   units' = [units EXCEPT
                     ![k].cachedData =
                        SerializedCodeData(script.data, h, flag_hash),
                     ![k].cachedDataProduced = BooleanNew(TRUE)]
            ELSE units' = units
  /\ pc' = "disable"
  /\ UNCHANGED <<FLAG_lazy, FLAG_predictable, save_lazy, save_predictable,
                 flag_hash, scripts, compilation_cache, call, ret>>
  /\ UNCHANGED otherVars

\* if (sourceless && produce_cached_data) Disable; then New returns
DisableAndReturn ==
  /\ pc = "disable"
  /\ IF call.sourceless /\ call.produce_cached_data
       THEN SetFlags(DisableCompilationForSourcelessUse(CurrentFlags))
       ELSE UNCHANGED <<FLAG_lazy, FLAG_predictable,
                        save_lazy, save_predictable>>
  /\ ret' = [status |-> "returned", unit |-> Len(units), error |-> "none"]
  /\ pc' = "idle"
  /\ call' = IdleCall
  /\ UNCHANGED <<flag_hash, scripts, compilation_cache, units>>
  /\ UNCHANGED otherVars

-----------------------------------------------------------------------------
(* What else happens to the engine between two compiles.                    *)

\* The collector flushes the bytecode of a function the query lets it flush.
FlushBytecode(id, mode, is_old) ==
  /\ pc = "idle"
  /\ id \in 1..Len(scripts)
  /\ ShouldFlushBytecode(scripts[id], mode, is_old)
  /\ scripts' = [scripts EXCEPT ![id].data = Uncompiled]
  /\ UNCHANGED <<FLAG_lazy, FLAG_predictable, save_lazy, save_predictable,
                 flag_hash, compilation_cache, units, pc, call, ret>>
  /\ UNCHANGED otherVars

\* What JSFunction::ToString gives for a function without source code that
\* is not printed as a class.
NativeCodeFunctionSourceString == "function () { [native code] }"

\* What comes of reading characters through a source slot that holds the
\* sentinel: String::cast of the undefined value, then its length and bytes.
InvalidRead == "<invalid read>"

\* Factory::NewSubString(source, start, end) over the whole function: the
\* characters of the text in the source slot.
NewSubString(source) == IF source = Undefined THEN InvalidRead ELSE source

\* JSFunction::ToString without the test of the source slot in the class
\* branch.
JSFunctionToStringUnpatched(script, is_class) ==
  IF is_class
    THEN NewSubString(script.source)
    ELSE IF script.source = Undefined THEN NativeCodeFunctionSourceString
         ELSE NewSubString(script.source)

\* JSFunction::ToString(function) for the top-level function of a script;
\* is_class: the function carries class positions. With source, the text is
\* cut out of the script's source.
JSFunctionToString(script, is_class) ==
  IF is_class
    THEN IF script.source = Undefined THEN "class {}"
         ELSE NewSubString(script.source)
    ELSE IF script.source = Undefined THEN NativeCodeFunctionSourceString
         ELSE NewSubString(script.source)

\* source->length(): the number of characters of a text; reading it through
\* the sentinel gives no length.
StringLength(source) ==
  CASE source = Undefined -> -1
    [] source = "" -> 0
    [] OTHER -> 1

\* A parse that makes up a source text for a script that has none.
ParseFunctionRestoringSource(script) ==
  [ok |-> TRUE,
   script |-> [script EXCEPT !.source = "a", !.data = Bytecode("a")],
   total_parse_size |-> 1, stream |-> "a"]

\* parsing::ParseFunction without the test of the source slot: the length
\* is read and the character stream is made over whatever the slot holds.
ParseFunctionUnpatched(script) ==
  [ok |-> Parses(script.source) /\ script.source # Undefined,
   script |-> IF IsBytecodeArray(script.data) \/ ~Parses(script.source)
                   \/ script.source = Undefined
                THEN script
                ELSE [script EXCEPT !.data = Bytecode(script.source)],
   total_parse_size |-> StringLength(script.source),
   stream |-> NewSubString(script.source)]

\* No character stream was made.
NoStream == "<no stream>"

\* parsing::ParseFunction and the compile that follows it: false, and no
\* change, for a script without source and for a text that does not parse;
\* otherwise the function has bytecode afterwards. total_parse_size: what
\* the counter is incremented by; stream: the text the character stream is
\* made over.
ParseFunction(script) ==
  IF script.source = Undefined
    THEN [ok |-> FALSE, script |-> script,
          total_parse_size |-> 0, stream |-> NoStream]
  ELSE IF ~Parses(script.source)
    THEN [ok |-> FALSE, script |-> script,
          total_parse_size |-> StringLength(script.source),
          stream |-> NewSubString(script.source)]
  ELSE [ok |-> TRUE,
        script |-> IF IsBytecodeArray(script.data) THEN script
                   ELSE [script EXCEPT !.data = Bytecode(script.source)],
        total_parse_size |-> StringLength(script.source),
        stream |-> NewSubString(script.source)]

\* Function.prototype.toString on the function of script id
FunctionToString(id, is_class) ==
  /\ pc = "idle"
  /\ id \in 1..Len(scripts)
  /\ ret' = [status |-> "ToString", unit |-> 0, error |-> "none", script |-> id,
             value |-> JSFunctionToString(scripts[id], is_class)]
  /\ UNCHANGED <<FLAG_lazy, FLAG_predictable, save_lazy, save_predictable,
                 flag_hash, scripts, compilation_cache, units, pc, call>>
  /\ UNCHANGED otherVars

\* The function of script id is parsed again: to compile it after a flush, or
\* to find a position in its text.
Reparse(id) ==
  /\ pc = "idle"
  /\ id \in 1..Len(scripts)
  /\ scripts' = [scripts EXCEPT ![id] = ParseFunction(scripts[id]).script]
  /\ ret' = [status |-> "ParseFunction", unit |-> 0, error |-> "none",
             script |-> id,
             value |-> IF ParseFunction(scripts[id]).ok THEN "true" ELSE "false"]
  /\ UNCHANGED <<FLAG_lazy, FLAG_predictable, save_lazy, save_predictable,
                 flag_hash, compilation_cache, units, pc, call>>
  /\ UNCHANGED otherVars

-----------------------------------------------------------------------------
(* The engine and the host binding.                                        *)

\* prepareMainThreadExecution has not been called: no call, no run of its
\* body, process.argv[1] neither seen nor expanded.
NotPrepared == [calls |-> 0, bodies |-> 0, argv1 |-> <<>>, expanded |-> FALSE]

\* lib/fs.js defines neither internalModuleStat nor internalModuleReadJSON.
FsAsLoaded ==
  [internalModuleStat |-> "undefined", internalModuleReadJSON |-> "undefined"]

\* No executable image: the launcher is not part of the run.
NoImage ==
  [engine |-> <<>>, prelude |-> <<>>, payload |-> <<>>,
   bytes |-> <<>>, PRELUDE_POSITION |-> "", PRELUDE_SIZE |-> "",
   PAYLOAD_POSITION |-> "", PAYLOAD_SIZE |-> ""]

\* pkg.js has not run: nothing opened, read, compiled, called or printed.
NoBoot ==
  [fd |-> [path |-> <<>>], request |-> [length |-> -1, position |-> -1],
   read |-> -1, prelude |-> <<>>,
   compiled |-> 0, invoked |-> <<>>, result |-> "none", closed |-> FALSE,
   stderr |-> <<>>, exit |-> -1]

\* build() has not been called.
NoBuild ==
  [state |-> "off", pc |-> "off", i |-> 0, patches |-> <<>>, win |-> FALSE,
   inflight |-> {}, trace |-> <<>>,
   disk |-> [buildPath |-> "absent", local |-> "absent",
             sha256sum |-> "absent"]]

InitLoaderIdle ==
  /\ relays = 0
  /\ process_argv = <<>> /\ process_execArgv = <<>>
  /\ _alreadyPrepared = FALSE /\ prepared = NotPrepared
  /\ fs = FsAsLoaded /\ image = NoImage /\ boot = NoBoot

InitLaunchIdle ==
  /\ argc = 0 /\ argv = <<>> /\ BAKERY = <<>>
  /\ PKG_EXECPATH = [set |-> FALSE, value |-> ""]
  /\ lpc = "off" /\ nargv = <<>> /\ c = 0
  /\ started = [argc |-> 0, argv |-> <<>>, args |-> <<>>]
  /\ InitLoaderIdle
  /\ build = NoBuild

InitEngine ==
  /\ FLAG_lazy \in BOOLEAN
  /\ FLAG_predictable \in BOOLEAN
  /\ save_lazy = FALSE
  /\ save_predictable = FALSE
  /\ flag_hash = FlagHashOf(FLAG_lazy, FLAG_predictable)
  /\ scripts = <<>>
  /\ compilation_cache = <<>>
  /\ units = <<>>
  /\ pc = "idle"
  /\ call = IdleCall
  /\ ret = NoReturn

Init == InitEngine /\ log = <<>> /\ InitLaunchIdle /\ sanity = NoSanity

Next ==
  \/ \E code \in Sources, produce \in BOOLEAN, given \in JsValues :
       \E blob \in CachedDataInputs : New(code, blob, produce, given)
  \/ CompileUnboundScript
  \/ CompileFailed
  \/ FixIfSourceless
  \/ ResetScript
  \/ SetCacheProperties
  \/ DisableAndReturn
  \/ \E id \in 1..MaxUnits, mode \in FlushModes, is_old \in BOOLEAN :
       FlushBytecode(id, mode, is_old)

Spec == Init /\ [][Next]_vars

-----------------------------------------------------------------------------
(* The argv relay launcher (node_main.cc, the POSIX build). A C string is  *)
(* a sequence of one-character strings; in memory NUL ends it.             *)

NUL == "NUL"

\* The token reorder inserts: "PKG_DUMMY_ENTRYPOINT".
PKG_DUMMY_ENTRYPOINT ==
  <<"P", "K", "G", "_", "D", "U", "M", "M", "Y", "_",
    "E", "N", "T", "R", "Y", "P", "O", "I", "N", "T">>

\* The value of PKG_EXECPATH that marks a process relayed by itself.
PKG_INVOKE_NODEJS == "PKG_INVOKE_NODEJS"

\* getenv("PKG_EXECPATH"): a null pointer when the variable is not set.
Environments ==
  { [set |-> FALSE, value |-> ""],
    [set |-> TRUE, value |-> PKG_INVOKE_NODEJS],
    [set |-> TRUE, value |-> ""],
    [set |-> TRUE, value |-> "/usr/bin/app"] }

\* The marker block as compiled (it starts with NUL, the text is cut short
\* here) and as an external patcher rewrites it: strings, each ended by NUL,
\* and one more NUL after the last.
BakeryBlocks ==
  { <<NUL, "/", "/", " ", "B", NUL>>,
    <<"-", "a", NUL, NUL>>,
    <<"-", "a", NUL, "b", NUL, NUL>> }

\* Command-line arguments a user may give after the executable's path.
UserArgs == { <<"s">>, <<"-", "v">>, PKG_DUMMY_ENTRYPOINT }

\* The longest command line of the model, the executable's path included.
MaxArgc == 3

RECURSIVE strlen2(_, _)
\* strlen2(s): the bytes from pointer p of mem up to the next NUL
strlen2(mem, p) ==
  IF mem[p] = NUL THEN 0 ELSE 1 + strlen2(mem, p + 1)

\* The C string that starts at pointer p of mem.
CString(mem, p) == SubSeq(mem, p, p + strlen2(mem, p) - 1)

\* should_set_dummy(), the #else branch
should_set_dummy(env) ==
  IF ~env.set THEN TRUE ELSE env.value # PKG_INVOKE_NODEJS

RECURSIVE BakeryStrings(_, _)
\* reorder's while loop: the strings of the block from pointer bakery on
BakeryStrings(mem, bakery) ==
  LET width == strlen2(mem, bakery)
  IN IF width = 0 THEN <<>>
     ELSE <<CString(mem, bakery)>> \o BakeryStrings(mem, bakery + width + 1)

\* A reorder that puts the token in front of the marker block.
reorder_token_first(n, args, mem, env) ==
  <<args[1]>>
    \o (IF should_set_dummy(env) THEN <<PKG_DUMMY_ENTRYPOINT>> ELSE <<>>)
    \o BakeryStrings(mem, 1)
    \o SubSeq(args, 2, n)

\* reorder(argc, argv): the array nargv it hands to adjacent
reorder(n, args, mem, env) ==
  <<args[1]>>
    \o BakeryStrings(mem, 1)
    \o (IF should_set_dummy(env) THEN <<PKG_DUMMY_ENTRYPOINT>> ELSE <<>>)
    \o SubSeq(args, 2, n)

RECURSIVE AdjacentBlock(_)
\* adjacent's copy loop: every string and its terminator, back to back
AdjacentBlock(strings) ==
  IF strings = <<>> THEN <<>>
  ELSE Head(strings) \o <<NUL>> \o AdjacentBlock(Tail(strings))

RECURSIVE AdjacentPointers(_, _)
\* adjacent's copy loop: argv[i] = &args[pos]; pos += strlen(argv[i]) + 1
AdjacentPointers(strings, pos) ==
  IF strings = <<>> THEN <<>>
  ELSE <<pos>> \o AdjacentPointers(Tail(strings), pos + Len(Head(strings)) + 1)

\* A copy that leaves one unused byte after every string's terminator.
adjacent_with_gaps(n, strings) ==
  [argc |-> n,
   argv |-> AdjacentPointers([i \in 1..n |-> strings[i] \o <<NUL>>], 1),
   args |-> AdjacentBlock([i \in 1..n |-> strings[i] \o <<NUL>>])]

\* What node::Start receives from adjacent(argc, argv).
adjacent(n, strings) ==
  [argc |-> n,
   argv |-> AdjacentPointers(SubSeq(strings, 1, n), 1),
   args |-> AdjacentBlock(SubSeq(strings, 1, n))]

NotStarted == [argc |-> 0, argv |-> <<>>, args |-> <<>>]

\* The argument list node::Start reads through the pointers it was given.
StartedArgs ==
  [i \in 1..started.argc |-> CString(started.args, started.argv[i])]

\* new char*[argc + 64]: the slots of nargv beyond argc
NargvExtra == 64

NargvSlots(n) == n + NargvExtra

\* main calls reorder(argc, argv), which fills nargv. A write past the last
\* slot of nargv lands in memory the array does not own: the run goes on
\* with what was written, or it ends there.
Reorder ==
  /\ lpc = "main"
  /\ LET written == reorder(argc, argv, BAKERY, PKG_EXECPATH)
     IN /\ c' = Len(written)
        /\ IF Len(written) <= NargvSlots(argc)
             THEN nargv' = written /\ lpc' = "adjacent"
             ELSE \/ nargv' = written /\ lpc' = "adjacent"
                  \/ /\ nargv' = SubSeq(written, 1, NargvSlots(argc))
                     /\ lpc' = "crashed"
  /\ UNCHANGED <<argc, argv, PKG_EXECPATH, BAKERY, started>>
  /\ UNCHANGED <<engineVars, log, loaderVars, sanity, build>>

\* reorder returns adjacent(c, nargv), which calls node::Start
Adjacent ==
  /\ lpc = "adjacent"
  /\ started' = adjacent(c, nargv)
  /\ lpc' = "started"
  /\ UNCHANGED <<argc, argv, PKG_EXECPATH, BAKERY, nargv, c>>
  /\ UNCHANGED <<engineVars, log, loaderVars, sanity, build>>

-----------------------------------------------------------------------------
(* From node::Start to the end of pkg.js: the process object's argument    *)
(* list, prepareMainThreadExecution and the bootstrap loader.              *)

launchArgs == <<argc, argv, PKG_EXECPATH, BAKERY, nargv, c, started>>

\* Calls of prepareMainThreadExecution in one process, pkg.js's included.
MaxPrepareCalls == 3

\* Times a process starts its own executable again.
MaxRelays == 1

\* node::Start's option parser takes an argument for an option when it is
\* longer than one character and begins with '-'.
IsOption(arg) == Len(arg) > 1 /\ arg[1] = "-"

RECURSIVE OptionsEnd(_, _)
\* The index of the first argument from i on that is no option.
OptionsEnd(args, i) ==
  IF i > Len(args) \/ ~IsOption(args[i]) THEN i ELSE OptionsEnd(args, i + 1)

\* node::Start(argc, argv): the options after argv[0] become process.execArgv,
\* argv[0] and what follows the options become process.argv.
ProcessGlobalArgsOf(args) ==
  LET e == OptionsEnd(args, 2)
  IN [execArgv |-> SubSeq(args, 2, e - 1),
      argv |-> <<args[1]>> \o SubSeq(args, e, Len(args))]

\* process.execPath: the absolute path of the executable argv[0] names.
Cwd == <<"/", "w">>
resolve(path) ==
  IF path # <<>> /\ path[1] = "/" THEN path ELSE Cwd \o <<"/">> \o path
execPath(argv0) == resolve(argv0)

\* The condition under which patchProcessObject expands process.argv[1].
ExpandsArgv1Unpatched(expandArgv1, args) ==
  /\ expandArgv1
  /\ Len(args) >= 2 /\ args[2] # <<>>
  /\ args[2][1] # "-"

ExpandsArgv1(expandArgv1, args) ==
  /\ expandArgv1
  /\ Len(args) >= 2 /\ args[2] # <<>>
  /\ args[2][1] # "-"
  /\ args[2] # PKG_DUMMY_ENTRYPOINT

\* patchProcessObject(expandArgv1): process.argv after it
patchProcessObject(expandArgv1, args) ==
  LET withExecPath == [args EXCEPT ![1] = execPath(args[1])]
  IN IF ExpandsArgv1(expandArgv1, args)
       THEN [withExecPath EXCEPT ![2] = resolve(args[2])]
       ELSE withExecPath

\* A guard that is not set by the first call.
GuardNeverSet(guard) == guard

\* _alreadyPrepared after a call that found it false
GuardAfterFirstCall(guard) == TRUE

\* prepareMainThreadExecution(expandArgv1)
prepareMainThreadExecution(expandArgv1) ==
  IF _alreadyPrepared = TRUE
    THEN /\ prepared' = [prepared EXCEPT !.calls = @ + 1]
         /\ UNCHANGED <<_alreadyPrepared, process_argv>>
    ELSE /\ _alreadyPrepared' = GuardAfterFirstCall(_alreadyPrepared)
         /\ process_argv' = patchProcessObject(expandArgv1, process_argv)
         /\ prepared' =
              [calls |-> prepared.calls + 1,
               bodies |-> prepared.bodies + 1,
               argv1 |-> IF Len(process_argv) >= 2 THEN process_argv[2] ELSE <<>>,
               expanded |-> ExpandsArgv1(expandArgv1, process_argv)]

\* The text of a number as the packager writes it into pkg.js.
Decimal(n) ==
  CASE n = 0 -> "0" [] n = 1 -> "1" [] n = 2 -> "2" [] n = 3 -> "3"
    [] n = 4 -> "4" [] n = 5 -> "5" [] n = 6 -> "6"

\* literal | 0: the number a string literal of pkg.js converts to; a text
\* that is no number gives NaN, and NaN | 0 is 0.
BitOrZero(literal) ==
  CASE literal = "1" -> 1 [] literal = "2" -> 2 [] literal = "3" -> 3
    [] literal = "4" -> 4 [] literal = "5" -> 5 [] literal = "6" -> 6
    [] OTHER -> 0

\* The executable as built: no prelude, no payload, the literals of pkg.js
\* as they are in the source.
BuiltImage(engine) ==
  [engine |-> engine, prelude |-> <<>>, payload |-> <<>>,
   bytes |-> engine,
   PRELUDE_POSITION |-> "// PRELUDE_POSITION //",
   PRELUDE_SIZE |-> "// PRELUDE_SIZE //",
   PAYLOAD_POSITION |-> "// PAYLOAD_POSITION //",
   PAYLOAD_SIZE |-> "// PAYLOAD_SIZE //"]

\* The executable after the packager has appended a prelude and a payload
\* and written the four numbers; cut bytes are missing at the end of the file.
PackagedImage(engine, prelude, payload, cut) ==
  LET all == engine \o prelude \o payload
  IN [engine |-> engine, prelude |-> prelude, payload |-> payload,
      bytes |-> SubSeq(all, 1, Len(all) - cut),
      PRELUDE_POSITION |-> Decimal(Len(engine)),
      PRELUDE_SIZE |-> Decimal(Len(prelude)),
      PAYLOAD_POSITION |-> Decimal(Len(engine) + Len(prelude)),
      PAYLOAD_SIZE |-> Decimal(Len(payload))]

Images ==
  { BuiltImage(<<"b", "b">>),
    PackagedImage(<<"b", "b">>, <<"p", "q">>, <<"x">>, 0),
    PackagedImage(<<"c", "p">>, <<"p", "q">>, <<"q", "y">>, 0),
    PackagedImage(<<"b", "b">>, <<"q", "p">>, <<"x">>, 0),
    PackagedImage(<<"b", "b">>, <<"p", "q">>, <<"x">>, 2),
    PackagedImage(<<"b", "b">>, <<"p", "!">>, <<"x">>, 0) }

\* fs.openSync(path, 'r'): the descriptor names the file it was opened on.
openSync(path) == [path |-> path]

\* A read that starts at the beginning of the file, whatever the position.
readSyncFromStart(file, length, position) ==
  LET read == IF length <= Len(file) THEN length ELSE Len(file)
  IN [read |-> read, buffer |-> SubSeq(file, 1, read)]

\* fs.readSync(fd, buffer, 0, length, position) on a file: the bytes that
\* exist from position on, length of them at most, and their count.
readSync(file, length, position) ==
  LET available == IF position >= Len(file) THEN 0 ELSE Len(file) - position
      read == IF length <= available THEN length ELSE available
  IN [read |-> read, buffer |-> SubSeq(file, position + 1, position + read)]

\* A test that takes a read for short only when it got nothing.
ShortReadOnlyWhenEmpty(read, PRELUDE_SIZE) == read = 0

\* if (read !== PRELUDE_SIZE)
ShortRead(read, PRELUDE_SIZE) == read # PRELUDE_SIZE

\* new vm.Script(prelude, ...) throws for a text that does not parse.
PreludeCompiles(prelude) == \A i \in 1..Len(prelude) : prelude[i] # "!"

\* process.argv.splice(start, deleteCount)
splice(args, start, deleteCount) ==
  IF start >= Len(args) THEN args
  ELSE SubSeq(args, 1, start)
         \o SubSeq(args, start + deleteCount + 1, Len(args))

\* What a prelude may return to pkg.js.
PreludeResults == {"undefined", "undoPatch"}

\* The prelude (external) installs its own file primitives on require('fs').
FsOfPrelude ==
  [internalModuleStat |-> "prelude", internalModuleReadJSON |-> "prelude"]

\* An undo that restores internalModuleStat only.
undoPatchStatOnly(fsObject) ==
  [fsObject EXCEPT !.internalModuleStat = "bindingFs.internalModuleStat"]

\* pkg.js, if (result && result.undoPatch): the two assignments
undoPatch(fsObject) ==
  [internalModuleStat |-> "bindingFs.internalModuleStat",
   internalModuleReadJSON |-> "bindingFs.internalModuleReadJSON"]

\* Paths the module loader asks about, and the native bindings' answers:
\* internalModuleStat gives 0 for a file, 1 for a directory, a negative
\* number otherwise; internalModuleReadJSON gives the text or undefined.
Paths == {"/w/package.json", "/w", "/none"}
bindingFs_internalModuleStat(f) ==
  CASE f = "/w/package.json" -> 0 [] f = "/w" -> 1 [] OTHER -> -2
bindingFs_internalModuleReadJSON(f) ==
  IF f = "/w/package.json" THEN "{}" ELSE "undefined"

\* cjs/loader.js: function (f) { return require('fs').internalModuleStat(f); }
\* (calling a property that is undefined throws a TypeError)
internalModuleStat(f) ==
  CASE fs.internalModuleStat = "bindingFs.internalModuleStat" ->
         [outcome |-> "returned", by |-> "binding",
          value |-> bindingFs_internalModuleStat(f)]
    [] fs.internalModuleStat = "prelude" ->
         [outcome |-> "returned", by |-> "prelude", value |-> 0]
    [] OTHER -> [outcome |-> "threw", by |-> "TypeError", value |-> 0]

\* function (f) { return require('fs').internalModuleReadJSON(f); }
internalModuleReadJSON(f) ==
  CASE fs.internalModuleReadJSON = "bindingFs.internalModuleReadJSON" ->
         [outcome |-> "returned", by |-> "binding",
          value |-> bindingFs_internalModuleReadJSON(f)]
    [] fs.internalModuleReadJSON = "prelude" ->
         [outcome |-> "returned", by |-> "prelude", value |-> ""]
    [] OTHER -> [outcome |-> "threw", by |-> "TypeError", value |-> ""]

\* node::Start: the process object gets its argument lists
ProcessGlobalArgs ==
  /\ lpc = "started"
  /\ process_argv' = ProcessGlobalArgsOf(StartedArgs).argv
  /\ process_execArgv' = ProcessGlobalArgsOf(StartedArgs).execArgv
  /\ lpc' = "pkg"
  /\ UNCHANGED <<relays, _alreadyPrepared, prepared, fs, image, boot>>
  /\ UNCHANGED <<launchArgs, engineVars, log, sanity, build>>

\* pkg.js: prepareMainThreadExecution(true);
PkgPrepare ==
  /\ lpc = "pkg"
  /\ prepareMainThreadExecution(TRUE)
  /\ lpc' = "loader"
  /\ UNCHANGED <<relays, process_execArgv, fs, image, boot>>
  /\ UNCHANGED <<launchArgs, engineVars, log, sanity, build>>

\* pkg.js, the function that opens the executable, calls readPrelude and
\* undoes the patch; result is what the prelude returns when it is called.
PkgMain(result) ==
  /\ lpc = "loader"
  /\ LET fd == openSync(execPath(argv[1]))
         file == image.bytes
         PAYLOAD_POSITION == BitOrZero(image.PAYLOAD_POSITION)
         PAYLOAD_SIZE == BitOrZero(image.PAYLOAD_SIZE)
         PRELUDE_POSITION == BitOrZero(image.PRELUDE_POSITION)
         PRELUDE_SIZE == BitOrZero(image.PRELUDE_SIZE)
         r == readSync(file, PRELUDE_SIZE, PRELUDE_POSITION)
         asked == [boot EXCEPT
                     !.fd = fd,
                     !.request = [length |-> PRELUDE_SIZE,
                                  position |-> PRELUDE_POSITION],
                     !.read = r.read,
                     !.prelude = r.buffer]
     IN IF PRELUDE_POSITION = 0
          THEN \* no prelude - remove entrypoint from argv[1]
               /\ process_argv' = splice(process_argv, 1, 1)
               /\ fs' = undoPatch(fs)
               /\ boot' = [boot EXCEPT !.fd = fd, !.result = "undoPatch",
                                       !.closed = TRUE]
               /\ lpc' = "done"
        ELSE IF ShortRead(r.read, PRELUDE_SIZE)
          THEN \* console.error twice, process.exit(1)
               /\ boot' = [asked EXCEPT
                    !.stderr = << [text |-> "Pkg: Error reading from file.",
                                   Expected |-> PRELUDE_SIZE,
                                   Actual |-> r.read],
                                  [env |-> [PKG_EXECPATH |-> PKG_EXECPATH]] >>,
                    !.exit = 1]
               /\ lpc' = "exited"
               /\ UNCHANGED <<process_argv, fs>>
        ELSE IF ~PreludeCompiles(r.buffer)
          THEN \* new vm.Script throws
               /\ boot' = [asked EXCEPT !.result = "SyntaxError"]
               /\ lpc' = "threw"
               /\ UNCHANGED <<process_argv, fs>>
          ELSE \* fn(process, __require__, console, fd, PAYLOAD_POSITION,
               \* PAYLOAD_SIZE)
               /\ boot' = [asked EXCEPT
                    !.compiled = @ + 1,
                    !.invoked = Append(@, [fn |-> r.buffer,
                                           process |-> "process",
                                           require |-> "__require__",
                                           console |-> "console",
                                           fd |-> fd,
                                           PAYLOAD_POSITION |-> PAYLOAD_POSITION,
                                           PAYLOAD_SIZE |-> PAYLOAD_SIZE]),
                    !.result = result,
                    !.closed = (result = "undoPatch")]
               /\ fs' = IF result = "undoPatch" THEN undoPatch(FsOfPrelude)
                        ELSE FsOfPrelude
               /\ lpc' = "done"
               /\ UNCHANGED process_argv
  /\ UNCHANGED <<relays, process_execArgv, _alreadyPrepared, prepared, image>>
  /\ UNCHANGED <<launchArgs, engineVars, log, sanity, build>>

\* A main script (run_main_module and the like) calls
\* prepareMainThreadExecution again, after pkg.js.
MainPrepare(expandArgv1) ==
  /\ lpc = "done"
  /\ prepared.calls < MaxPrepareCalls
  /\ prepareMainThreadExecution(expandArgv1)
  /\ UNCHANGED <<relays, process_execArgv, fs, image, boot>>
  /\ UNCHANGED <<lpc, launchArgs, engineVars, log, sanity, build>>

\* The process starts its own executable on the argument list the launcher
\* produced, with PKG_EXECPATH set to PKG_INVOKE_NODEJS: main runs again in
\* a new process.
SelfInvoke ==
  /\ lpc = "done"
  /\ relays < MaxRelays
  /\ relays' = relays + 1
  /\ argv' = StartedArgs
  /\ argc' = Len(StartedArgs)
  /\ PKG_EXECPATH' = [set |-> TRUE, value |-> PKG_INVOKE_NODEJS]
  /\ lpc' = "main"
  /\ nargv' = <<>> /\ c' = 0 /\ started' = NotStarted
  /\ process_argv' = <<>> /\ process_execArgv' = <<>>
  /\ _alreadyPrepared' = FALSE /\ prepared' = NotPrepared
  /\ fs' = FsAsLoaded /\ boot' = NoBoot
  /\ UNCHANGED <<BAKERY, image>>
  /\ UNCHANGED <<engineVars, log, sanity, build>>

CommandLines ==
  UNION { [1..n -> UserArgs \cup {<<"n">>}] : n \in 1..MaxArgc }

InitLaunch ==
  /\ argv \in { a \in CommandLines : a[1] = <<"n">> }
  /\ argc = Len(argv)
  /\ PKG_EXECPATH \in Environments
  /\ BAKERY \in BakeryBlocks
  /\ lpc = "main"
  /\ nargv = <<>>
  /\ c = 0
  /\ started = NotStarted

InitEngineIdle ==
  /\ FLAG_lazy = TRUE /\ FLAG_predictable = FALSE
  /\ save_lazy = FALSE /\ save_predictable = FALSE
  /\ flag_hash = FlagHashOf(TRUE, FALSE)
  /\ scripts = <<>> /\ compilation_cache = <<>> /\ units = <<>>
  /\ pc = "idle" /\ call = IdleCall /\ ret = NoReturn

InitLoader ==
  /\ relays = 0
  /\ process_argv = <<>> /\ process_execArgv = <<>>
  /\ _alreadyPrepared = FALSE /\ prepared = NotPrepared
  /\ fs = FsAsLoaded /\ boot = NoBoot
  /\ image \in Images

LaunchInit ==
  /\ InitLaunch /\ InitLoader /\ InitEngineIdle /\ log = <<>>
  /\ sanity = NoSanity /\ build = NoBuild

LaunchNext ==
  \/ Reorder
  \/ Adjacent
  \/ ProcessGlobalArgs
  \/ PkgPrepare
  \/ \E result \in PreludeResults : PkgMain(result)
  \/ \E expandArgv1 \in BOOLEAN : MainPrepare(expandArgv1)
  \/ SelfInvoke

SpecLaunch == LaunchInit /\ [][LaunchNext]_vars

-----------------------------------------------------------------------------
(* The launcher alone, with the marker block as a packager leaves it: the  *)
(* block of the executable holds any number of options that fits in it.    *)

\* sizeof the BAKERY literal, its two NULs included
BakerySize == 202

RECURSIVE OptionBlock(_)
\* A marker block of k options "-a", each ended by NUL, and the closing NUL
OptionBlock(k) ==
  IF k = 0 THEN <<NUL>> ELSE <<"-", "a", NUL>> \o OptionBlock(k - 1)

\* The blocks of such options that fit into the literal.
OptionBlocks == { OptionBlock(k) : k \in 0..((BakerySize - 1) \div 3) }

SlotsInit ==
  /\ argv \in { a \in CommandLines : a[1] = <<"n">> }
  /\ argc = Len(argv)
  /\ PKG_EXECPATH \in Environments
  /\ BAKERY \in OptionBlocks
  /\ lpc = "main" /\ nargv = <<>> /\ c = 0 /\ started = NotStarted
  /\ InitLoaderIdle /\ InitEngineIdle /\ log = <<>> /\ sanity = NoSanity
  /\ build = NoBuild

SlotsNext ==
  \/ Reorder
  \/ Adjacent

SpecSlots == SlotsInit /\ [][SlotsNext]_vars

-----------------------------------------------------------------------------
(* The heap of an engine started with the default flags: compiles, the     *)
(* collector, and the two queries a program makes of a function between    *)
(* them (its text, and a new parse of it).                                 *)

HeapInit ==
  InitEngineIdle /\ log = <<>> /\ InitLaunchIdle /\ sanity = NoSanity

HeapNext ==
  \/ \E code \in Sources, produce \in BOOLEAN, given \in JsValues :
       \E blob \in CachedDataInputs : New(code, blob, produce, given)
  \/ CompileUnboundScript
  \/ CompileFailed
  \/ FixIfSourceless
  \/ ResetScript
  \/ SetCacheProperties
  \/ DisableAndReturn
  \/ \E id \in 1..MaxUnits, mode \in FlushModes, is_old \in BOOLEAN :
       FlushBytecode(id, mode, is_old)
  \/ \E id \in 1..MaxUnits, is_class \in BOOLEAN :
       FunctionToString(id, is_class)
  \/ \E id \in 1..MaxUnits : Reparse(id)

SpecHeap == HeapInit /\ [][HeapNext]_vars

-----------------------------------------------------------------------------
(* The flag controller alone: Enable and Disable called through the V8 API *)
(* in any order, with a log of the calls and the flags before each.        *)

CallEnable ==
  /\ Len(log) < MaxLog
  /\ log' = Append(log, [op |-> "Enable", lazy |-> FLAG_lazy,
                         predictable |-> FLAG_predictable])
  /\ SetFlags(EnableCompilationForSourcelessUse(CurrentFlags))
  /\ UNCHANGED <<flag_hash, scripts, compilation_cache, units, pc, call, ret>>
  /\ UNCHANGED <<launchVars, loaderVars, sanity, build>>

CallDisable ==
  /\ Len(log) < MaxLog
  /\ log' = Append(log, [op |-> "Disable", lazy |-> FLAG_lazy,
                         predictable |-> FLAG_predictable])
  /\ SetFlags(DisableCompilationForSourcelessUse(CurrentFlags))
  /\ UNCHANGED <<flag_hash, scripts, compilation_cache, units, pc, call, ret>>
  /\ UNCHANGED <<launchVars, loaderVars, sanity, build>>

FlagsInit == InitEngine /\ log = <<>> /\ InitLaunchIdle /\ sanity = NoSanity

FlagsNext ==
  \/ CallEnable
  \/ CallDisable

SpecFlags == FlagsInit /\ [][FlagsNext]_vars

-----------------------------------------------------------------------------
(* SanityCheck alone: two invocations, each on a blob and with the source  *)
(* text that accompanies the check.                                        *)

\* Every header and payload a blob of the model can carry.
AllBlobs ==
  [kind : {"blob"},
   magic : {kMagicNumber, "other"},
   version_hash : {VersionHash, "v8-other"},
   source_hash : {SourceHash(src) : src \in Sources},
   flags_hash : {FlagHashOf(TRUE, FALSE), FlagHashOf(FALSE, TRUE)},
   payload_length : {1, 2},
   checksum : {Checksum(Bytecode("a")), Checksum(Bytecode("a")) + 1},
   payload : {Bytecode("a")}]

\* The second blob: the first one with at most one header field changed.
Variants(blob) ==
  { v \in AllBlobs :
      Cardinality({ f \in DOMAIN blob : v[f] # blob[f] }) <= 1 }

\* SerializedCodeData::FromCachedData(cached_data, SourceHash(source), ...)
FromCachedData(blob, source) ==
  SanityCheck(blob, SourceHash(source), flag_hash)

CheckFirst ==
  /\ sanity.stage = "first"
  /\ sanity' = [sanity EXCEPT
       !.resultA = FromCachedData(sanity.blobA, sanity.sourceA),
       !.stage = "second"]
  /\ UNCHANGED <<engineVars, log, launchVars, loaderVars, build>>

CheckSecond(blob, source) ==
  /\ sanity.stage = "second"
  /\ sanity' = [sanity EXCEPT
       !.blobB = blob,
       !.sourceB = source,
       !.resultB = FromCachedData(blob, source),
       !.stage = "done"]
  /\ UNCHANGED <<engineVars, log, launchVars, loaderVars, build>>

SanityInit ==
  /\ InitEngineIdle /\ log = <<>> /\ InitLaunchIdle
  /\ \E blob \in AllBlobs, source \in Sources :
       sanity = [NoSanity EXCEPT !.stage = "first", !.blobA = blob,
                                 !.sourceA = source]

SanityNext ==
  \/ CheckFirst
  \/ \E source \in Sources :
       \E blob \in Variants(sanity.blobA) : CheckSecond(blob, source)

SpecSanity == SanityInit /\ [][SanityNext]_vars

-----------------------------------------------------------------------------
(* Properties of the host binding, checked under Spec.                     *)

\* The units New has handed to its caller: the one it is still filling in
\* is not among them.
Returned(k) ==
  /\ k \in 1..Len(units)
  /\ pc \in {"cache", "disable"} => k < Len(units)

SourceOf(k) == scripts[units[k].script].source

FlushEligible(k) ==
  \E mode \in FlushModes, is_old \in BOOLEAN :
    ShouldFlushBytecode(scripts[units[k].script], mode, is_old)

\* The step on which New ends, by returning or by throwing.
EndsCall == pc # "idle" /\ pc' = "idle"

\* C1 (as claimed): a sourceless compile whose cache blob is rejected ends by
\* throwing and hands no unit to its caller; what it throws is a
\* ConfigurationError (a source text that does not parse may throw its own
\* error first).
C1_RejectedSourcelessThrows ==
  [][(EndsCall /\ call.sourceless /\ call.rejected)
       => (/\ ret'.status = "threw"
           /\ Parses(call.code) => ret'.error = "ConfigurationError")]_vars

C3_FlagsRestoredOnEveryExit ==
  [][(EndsCall /\ call.sourceless /\ call.produce_cached_data)
       => (/\ FLAG_lazy' = call.entry_lazy
           /\ FLAG_predictable' = call.entry_predictable)]_vars

\* Blobs that a sourceless cache-producing compile of this engine produced.
SourcelessProducers(blob) ==
  { j \in 1..Len(units) :
      /\ Returned(j)
      /\ units[j].sourceless
      /\ units[j].cachedDataProduced = "true"
      /\ units[j].cachedData = blob }

\* The bytecode unit j put into its blob was compiled from the text its
\* script still holds (and not taken from a blob given with another text):
\* a flush and a new parse of that script give the same bytecode again.
ProducedFromOwnSource(j) ==
  /\ SourceOf(j) # Undefined
  /\ units[j].cachedData.payload = Bytecode(SourceOf(j))

\* The running call is past its compile.
Compiled == pc \in {"check", "reset", "cache", "disable"}

\* The second half of the round trip: an empty-source sourceless compile given
\* a blob of bytecode that a sourceless producing compile made under the
\* flag configuration in force.
RoundTrip ==
  /\ Compiled
  /\ call.sourceless
  /\ call.code = ""
  /\ call.cached_data # NoBlob
  /\ SourcelessProducers(call.cached_data) # {}
  /\ call.cached_data.flags_hash = flag_hash
  /\ IsBytecodeArray(call.cached_data.payload)

\* C4: the round trip accepts the blob, succeeds, and yields a unit whose
\* bytecode is the bytecode of the compile that produced the blob.
C4_RoundTrip ==
  RoundTrip =>
    /\ ~call.rejected
    /\ call.consumed
    /\ call.v8_script # NoScript
    /\ scripts[call.v8_script].data = call.cached_data.payload
    /\ \A j \in SourcelessProducers(call.cached_data) :
         LET original == scripts[units[j].script].data
         IN (IsBytecodeArray(original) /\ ProducedFromOwnSource(j))
              => scripts[call.v8_script].data = original

\* A round trip of the source "a" about to return its unit.
C4_Witness ==
  /\ RoundTrip
  /\ pc = "disable"
  /\ call.cached_data.payload = Bytecode("a")
  /\ \E j \in SourcelessProducers(call.cached_data) : SourceOf(j) = "a"

\* A sourceless compile that only consumes a cache, and whose blob was accepted.
AcceptedConsumer ==
  /\ call.sourceless
  /\ ~call.produce_cached_data
  /\ call.compile_options = "kConsumeCodeCache"
  /\ ~call.rejected

\* C5: in a sourceless compile that consumes an accepted cache blob the source
\* is already the sentinel when the script is about to be stored in the unit
\* (after the compile consumed the cache), and the unit handed over reads it.
C5_FixBeforeHandOver ==
  /\ (AcceptedConsumer /\ pc = "reset")
       => scripts[call.v8_script].source = Undefined
  /\ (AcceptedConsumer /\ pc \in {"cache", "disable"})
       => (/\ units[Len(units)].script = call.v8_script
           /\ SourceOf(Len(units)) = Undefined)

\* A consumed blob whose unit is about to be handed over.
C5_Witness ==
  /\ AcceptedConsumer
  /\ call.consumed
  /\ pc = "disable"

\* C6: no step of a compile that is not sourceless changes a flag, changes the
\* snapshot slot, or turns the source of a script into the sentinel.
C6_StandardCompileUntouched ==
  [][LET frame == IF pc = "idle" THEN call' ELSE call
     IN ((pc # "idle" \/ pc' # "idle") /\ ~frame.sourceless)
          => /\ FLAG_lazy' = FLAG_lazy
             /\ FLAG_predictable' = FLAG_predictable
             /\ save_lazy' = save_lazy
             /\ save_predictable' = save_predictable
             /\ \A id \in 1..Len(scripts') :
                  scripts'[id].source = Undefined
                    => (id <= Len(scripts) /\ scripts[id].source = Undefined)]_vars

\* A standard compile that consumed a cache blob and kept its source text,
\* with flags that a sourceless compile would have had to override.
C6_Witness ==
  /\ pc = "disable"
  /\ ~call.sourceless
  /\ call.produce_cached_data
  /\ call.consumed
  /\ scripts[call.v8_script].source = "a"
  /\ FLAG_lazy /\ ~FLAG_predictable

\* C7: while a sourceless cache-producing compile compiles, and until it has
\* serialized the cache, lazy compilation is off and deterministic
\* compilation is on.
C7_EagerDeterministicWhileProducing ==
  (call.sourceless /\ call.produce_cached_data
     /\ pc \in {"compile", "check", "reset", "cache"})
    => (FLAG_lazy = FALSE /\ FLAG_predictable = TRUE)

\* About to serialize a cache in a call that was entered with lazy
\* compilation on and deterministic compilation off.
C7_Witness ==
  /\ pc = "cache"
  /\ call.sourceless /\ call.produce_cached_data
  /\ call.compile_options = "kNoCompileOptions"
  /\ call.entry_lazy /\ ~call.entry_predictable

-----------------------------------------------------------------------------
(* Properties of the flag controller, checked under SpecFlags.             *)

\* C8: Enable directly followed by Disable leaves both flags at the values
\* they had before the Enable.
C8_EnableDisableRestores ==
  LET n == Len(log)
  IN (n >= 2 /\ log[n].op = "Disable" /\ log[n - 1].op = "Enable")
       => (/\ FLAG_lazy = log[n - 1].lazy
           /\ FLAG_predictable = log[n - 1].predictable)

\* Enable then Disable, from lazy on and deterministic off.
C8_Witness ==
  /\ Len(log) = 2
  /\ log[1].op = "Enable" /\ log[2].op = "Disable"
  /\ log[1].lazy /\ ~log[1].predictable

-----------------------------------------------------------------------------
(* Properties of SanityCheck, checked under SpecSanity.                    *)

CheckedFields ==
  {"magic", "version_hash", "flags_hash", "checksum", "payload_length",
   "payload"}

\* C9: two checks of blobs that agree in magic, version hash, flags hash,
\* checksum, payload length and payload give the same result, whatever source
\* each blob was produced from and whatever source comes with the check, and
\* no check ever answers SOURCE_MISMATCH.
C9_SanityCheckIgnoresSource ==
  /\ sanity.stage \in {"second", "done"}
       => sanity.resultA \in SanityCheckResults
  /\ sanity.stage = "done"
       => /\ sanity.resultB \in SanityCheckResults
          /\ (\A f \in CheckedFields : sanity.blobA[f] = sanity.blobB[f])
               => sanity.resultA = sanity.resultB

\* Two accepted blobs that differ in nothing but the source they were made
\* from, checked along with two sources of different lengths.
C9_Witness ==
  /\ sanity.stage = "done"
  /\ \A f \in CheckedFields : sanity.blobA[f] = sanity.blobB[f]
  /\ sanity.blobA.source_hash # sanity.blobB.source_hash
  /\ SourceHash(sanity.sourceA) # SourceHash(sanity.sourceB)
  /\ sanity.blobA.source_hash # SourceHash(sanity.sourceA)
  /\ sanity.resultA = "CHECK_SUCCESS"

-----------------------------------------------------------------------------
(* Properties of the launcher, checked under SpecLaunch.                   *)

\* The launcher takes the Direct branch: the relay variable is unset or is
\* not the relay sentinel.
Direct == ~PKG_EXECPATH.set \/ PKG_EXECPATH.value # PKG_INVOKE_NODEJS

\* strings are the strings of the marker block, in order: none is empty or
\* holds a NUL, and laid out back to back with one more NUL they are the
\* block's first bytes.
IsMarkerList(strings) ==
  /\ \A i \in 1..Len(strings) :
       /\ strings[i] # <<>>
       /\ \A j \in 1..Len(strings[i]) : strings[i][j] # NUL
  /\ LET run == AdjacentBlock(strings) \o <<NUL>>
     IN Len(run) <= Len(BAKERY) /\ SubSeq(BAKERY, 1, Len(run)) = run

\* C10: the argument list the engine is started with is arg0, the marker
\* strings in order, the placeholder token on the Direct branch only, and the
\* original arguments 1..N in their order.
C10_RelayedArgumentList ==
  lpc = "started" =>
    LET out == StartedArgs
        token == IF Direct THEN 1 ELSE 0
        markers == Len(out) - argc - token
    IN /\ markers >= 0
       /\ out[1] = argv[1]
       /\ IsMarkerList(SubSeq(out, 2, 1 + markers))
       /\ Direct => out[2 + markers] = PKG_DUMMY_ENTRYPOINT
       /\ \A i \in 2..argc : out[markers + token + i] = argv[i]

\* A relayed process (no token) with two marker strings and two arguments.
C10_Witness ==
  /\ lpc = "started"
  /\ ~Direct
  /\ argc = 3
  /\ argv[2] # argv[3]
  /\ started.argc = 5

-----------------------------------------------------------------------------
(* Properties of the launcher and the loader, checked under SpecLaunch.    *)

\* The strings the marker block holds.
MarkerStrings == BakeryStrings(BAKERY, 1)

\* The places of list at which block begins.
Occurrences(block, list) ==
  { i \in 1..(Len(list) - Len(block) + 1) :
      SubSeq(list, i, i + Len(block) - 1) = block }

\* How many arguments of list are the placeholder token.
Tokens(list) ==
  Cardinality({ i \in 1..Len(list) : list[i] = PKG_DUMMY_ENTRYPOINT })

\* C11 (as claimed): the launcher, run with the relay sentinel set on the
\* argument list a previous run of it produced, hands on a list that holds
\* the marker block at most once and no placeholder token the input lacked.
C11_SecondRelayAddsNothing ==
  (relays > 0 /\ lpc = "started" /\ ~Direct) =>
    /\ MarkerStrings # <<>> =>
         Cardinality(Occurrences(MarkerStrings, StartedArgs)) <= 1
    /\ Tokens(StartedArgs) = Tokens(argv)

\* pkg.js finds no prelude: PRELUDE_POSITION is 0.
NoPrelude == BitOrZero(image.PRELUDE_POSITION) = 0

\* Every string of the marker block is an option for node::Start.
MarkersAreOptions ==
  \A i \in 1..Len(MarkerStrings) : IsOption(MarkerStrings[i])

\* C12 (as claimed): with no prelude, when the loader has finished,
\* process.argv is the executable's path followed by the arguments 1..N the
\* process was started with, on the Direct and on the SelfInvoked branch.
C12_NaturalArgumentsAfterLoader ==
  (lpc = "done" /\ NoPrelude /\ MarkersAreOptions) =>
    process_argv = <<execPath(argv[1])>> \o SubSeq(argv, 2, argc)

\* Both shims answer as the native bindings do, for every path.
ShimsAnswerAsBindings ==
  \A f \in Paths :
    /\ internalModuleStat(f) =
         [outcome |-> "returned", by |-> "binding",
          value |-> bindingFs_internalModuleStat(f)]
    /\ internalModuleReadJSON(f) =
         [outcome |-> "returned", by |-> "binding",
          value |-> bindingFs_internalModuleReadJSON(f)]

\* C13: with no prelude the loader reads, compiles and calls nothing, and
\* once it has finished internalModuleStat and internalModuleReadJSON give,
\* for every path, what the native bindings give.
C13_NoPreludeRestoresBindings ==
  NoPrelude =>
    /\ boot.compiled = 0 /\ boot.invoked = <<>> /\ boot.read = -1
    /\ lpc = "done" => ShimsAnswerAsBindings

\* The loader has finished without a prelude and has closed the executable.
C13_Witness ==
  /\ lpc = "done" /\ NoPrelude
  /\ boot.result = "undoPatch" /\ boot.closed
  /\ internalModuleStat("/w").value = 1

\* The arguments pkg.js must call the prelude with, for the image as the
\* packager laid it out: engine, then prelude, then payload.
ExpectedInvocation ==
  [fn |-> image.prelude,
   process |-> "process", require |-> "__require__", console |-> "console",
   fd |-> openSync(execPath(argv[1])),
   PAYLOAD_POSITION |-> Len(image.engine) + Len(image.prelude),
   PAYLOAD_SIZE |-> Len(image.payload)]

\* C14: with a prelude, the loader asks for the prelude's length of bytes at
\* the prelude's offset of its own executable; when it gets them they are
\* the prelude's bytes, whatever the engine and the payload hold. It calls
\* the compiled prelude at most once, and once it has finished it has called
\* it exactly once, with process, require, console, the descriptor, the
\* payload's offset and the payload's length.
C14_ReadsAndCallsPrelude ==
  (~NoPrelude /\ boot.read # -1) =>
    /\ boot.fd = openSync(execPath(argv[1]))
    /\ boot.request = [length |-> Len(image.prelude),
                       position |-> Len(image.engine)]
    /\ boot.read = Len(image.prelude) => boot.prelude = image.prelude
    /\ Len(boot.invoked) <= 1
    /\ boot.compiled = Len(boot.invoked)
    /\ lpc = "done" => boot.invoked = <<ExpectedInvocation>>

\* The prelude was called in an executable whose engine and payload hold
\* bytes of the prelude too.
C14_Witness ==
  /\ lpc = "done" /\ ~NoPrelude
  /\ Len(boot.invoked) = 1
  /\ boot.invoked[1].fn = <<"p", "q">>
  /\ image.engine = <<"c", "p">>
  /\ boot.invoked[1].PAYLOAD_POSITION = 4

\* C15: with a prelude, when the read gives another count of bytes than the
\* prelude's length, the process has exited with a status that is not 0,
\* after printing a message and the environment, and no prelude is compiled
\* or called.
C15_ShortReadIsFatal ==
  (~NoPrelude /\ boot.read # -1 /\ boot.read # boot.request.length) =>
    /\ lpc = "exited"
    /\ boot.exit > 0
    /\ Len(boot.stderr) = 2
    /\ boot.stderr[1].Expected = boot.request.length
    /\ boot.stderr[1].Actual = boot.read
    /\ boot.stderr[2] = [env |-> [PKG_EXECPATH |-> PKG_EXECPATH]]
    /\ boot.compiled = 0 /\ boot.invoked = <<>>

\* One byte of a prelude of two was read.
C15_Witness ==
  /\ lpc = "exited"
  /\ boot.request.length = 2 /\ boot.read = 1
  /\ boot.exit = 1

\* C16: in one process the body of prepareMainThreadExecution runs at most
\* once, however often it is called: _alreadyPrepared is false before the
\* first call and true after it, it never goes back to false, and a call
\* that finds it true changes nothing (process.argv stays as it is).
C16_PreparesAtMostOnce ==
  /\ [](/\ prepared.bodies <= 1
        /\ _alreadyPrepared <=> prepared.calls > 0
        /\ _alreadyPrepared <=> prepared.bodies = 1)
  /\ [][(_alreadyPrepared /\ relays' = relays) =>
          /\ _alreadyPrepared'
          /\ prepared'.bodies = prepared.bodies
          /\ prepared'.calls # prepared.calls =>
               /\ process_argv' = process_argv
               /\ UNCHANGED <<process_execArgv, fs, image, boot>>]_vars

\* Three calls, one run of the body.
C16_Witness ==
  /\ prepared.calls = 3 /\ prepared.bodies = 1
  /\ _alreadyPrepared
  /\ Len(process_argv) >= 2 /\ process_argv[2] = <<"s">>

\* The preparation routine has run on the Direct branch.
PreparedDirect == Direct /\ prepared.bodies = 1

C18_OneContiguousBlock ==
  started # NotStarted =>
    /\ started.argc = c /\ c = Len(nargv)
    /\ Len(started.argv) = c
    /\ started.argv[1] = 1
    /\ \A i \in 1..c :
         /\ CString(started.args, started.argv[i]) = nargv[i]
         /\ started.args[started.argv[i] + Len(nargv[i])] = NUL
         /\ i < c => started.argv[i + 1] = started.argv[i] + Len(nargv[i]) + 1
         /\ i = c => Len(started.args) = started.argv[i] + Len(nargv[i])

\* A process of the SelfInvoked branch was started on the list a process of
\* the Direct branch produced: marker strings, token and an argument.
C18_Witness ==
  /\ started # NotStarted
  /\ relays = 1 /\ ~Direct
  /\ Tokens(StartedArgs) = 1
  /\ Len(MarkerStrings) = 2
  /\ started.argc = 7

-----------------------------------------------------------------------------
(* Properties of scripts without source, checked under SpecHeap.           *)

\* Script id has the sentinel in its source slot.
Sourceless(id) == id \in 1..Len(scripts) /\ scripts[id].source = Undefined

C20_SourcelessNeverFlushed ==
  /\ [](\A id \in 1..Len(scripts) :
          Sourceless(id) =>
            \A mode \in FlushModes, is_old \in BOOLEAN :
              ~ShouldFlushBytecode(scripts[id], mode, is_old))
  /\ [][\A id \in 1..Len(scripts) :
          (Sourceless(id) /\ IsBytecodeArray(scripts[id].data)) =>
            scripts'[id].data = scripts[id].data]_vars

\* The collector has flushed a script with source while a script without
\* source keeps its bytecode.
C20_Witness ==
  \E id, other \in 1..Len(scripts) :
    /\ Sourceless(id) /\ IsBytecodeArray(scripts[id].data)
    /\ scripts[other].data = Uncompiled

-----------------------------------------------------------------------------
(* The queries on scripts without source, checked under SpecHeap.          *)

\* C21: stringifying a function of a script without source never reads
\* through the source slot, whether the function carries class positions
\* or not, and with class positions the result is the text "class {}".
C21_ToStringNeverReadsSource ==
  /\ \A id \in 1..Len(scripts) :
       Sourceless(id) =>
         /\ \A is_class \in BOOLEAN :
              JSFunctionToString(scripts[id], is_class) # InvalidRead
         /\ JSFunctionToString(scripts[id], TRUE) = "class {}"
  /\ (ret.status = "ToString" /\ Sourceless(ret.script))
       => ret.value \in {"class {}", NativeCodeFunctionSourceString}

\* A function with class positions of a script without source has been
\* stringified.
C21_Witness ==
  /\ ret.status = "ToString"
  /\ Sourceless(ret.script)
  /\ ret.value = "class {}"

\* C22: a parse asked again for a function of a script without source
\* answers false at once: the counter of parsed characters is not moved,
\* no character stream is made over the source, and the script is left as
\* it was.
C22_ReparseFailsFast ==
  /\ \A id \in 1..Len(scripts) :
       Sourceless(id) =>
         ParseFunction(scripts[id]) =
           [ok |-> FALSE, script |-> scripts[id],
            total_parse_size |-> 0, stream |-> NoStream]
  /\ (ret.status = "ParseFunction" /\ Sourceless(ret.script))
       => ret.value = "false"

\* A script without source that still has its bytecode has been asked to
\* parse again and answered false.
C22_Witness ==
  /\ ret.status = "ParseFunction"
  /\ Sourceless(ret.script)
  /\ IsBytecodeArray(scripts[ret.script].data)
  /\ ret.value = "false"

-----------------------------------------------------------------------------
(* The single snapshot slot, checked under SpecFlags.                      *)

\* The two flags after the k-th logged call: those logged before the next
\* call, or the current ones after the last call.
FlagsAfterCall(k) ==
  IF k < Len(log)
    THEN <<log[k + 1].lazy, log[k + 1].predictable>>
    ELSE <<FLAG_lazy, FLAG_predictable>>

\* Calls k..k+3 are Enable, Enable, Disable, Disable.
NestedEnableAt(k) ==
  /\ k + 3 <= Len(log)
  /\ log[k].op = "Enable" /\ log[k + 1].op = "Enable"
  /\ log[k + 2].op = "Disable" /\ log[k + 3].op = "Disable"

\* C23: after Enable, Enable, Disable, Disable started with lazy on or
\* deterministic off, the flags are not back at their values from before
\* the first Enable: lazy is off and deterministic is on.
C23_NestedEnableLosesSnapshot ==
  \A k \in 1..Len(log) :
    (NestedEnableAt(k) /\ (log[k].lazy \/ ~log[k].predictable))
      => /\ FlagsAfterCall(k + 3) = <<FALSE, TRUE>>
         /\ FlagsAfterCall(k + 3) # <<log[k].lazy, log[k].predictable>>

\* Enable, Enable, Disable, Disable have been called from lazy on and
\* deterministic off.
C23_Witness ==
  /\ Len(log) >= 4
  /\ NestedEnableAt(1)
  /\ log[1].lazy /\ ~log[1].predictable

-----------------------------------------------------------------------------
(* The compiler's script entry alone: an embedder compiles texts, with and *)
(* without a code cache, on one isolate. The log keeps, for each compile,  *)
(* what was given and what came back.                                      *)

\* Code caches an embedder holds: the two of ForeignBlobs and one written
\* by this engine from the empty text.
EmbedderBlobs ==
  ForeignBlobs
    \cup {SerializedCodeData(Bytecode(""), SourceHash(""), flag_hash)}

\* ScriptCompiler::CompileUnboundScriptInternal: one call of
\* Compiler::GetSharedFunctionInfoForScript, consuming when a cache is given
CompileUnboundScriptInternal(source, cached_data) ==
  /\ pc = "idle"
  /\ Len(log) < MaxLog
  /\ LET r == GetSharedFunctionInfoForScript(
                source, cached_data, cached_data # NoBlob,
                scripts, compilation_cache, flag_hash)
     IN /\ scripts' = r.heap
        /\ compilation_cache' = r.cache
        /\ log' = Append(log, [source |-> source, cached_data |-> cached_data,
                               result |-> r.result, rejected |-> r.rejected,
                               consumed |-> r.consumed])
  /\ UNCHANGED <<FLAG_lazy, FLAG_predictable, save_lazy, save_predictable,
                 flag_hash, units, pc, call, ret>>
  /\ UNCHANGED <<launchVars, loaderVars, sanity, build>>

CacheInit ==
  InitEngineIdle /\ log = <<>> /\ InitLaunchIdle /\ sanity = NoSanity

CacheNext ==
  \E source \in Sources, cached_data \in {NoBlob} \cup EmbedderBlobs :
    CompileUnboundScriptInternal(source, cached_data)

SpecCache == CacheInit /\ [][CacheNext]_vars

\* C24: a compile of the empty text is never answered from the isolate's
\* compilation cache: with a code cache given, the cache is put to the
\* check, and two compiles of the empty text given different code caches
\* never return the same script.
C24_EmptySourceNeverShares ==
  /\ \A j \in 1..Len(log) :
       (log[j].source = "" /\ log[j].cached_data # NoBlob)
         => (log[j].consumed \/ log[j].rejected)
  /\ \A i, j \in 1..Len(log) :
       (/\ i < j
        /\ log[i].source = "" /\ log[j].source = ""
        /\ log[i].cached_data # NoBlob /\ log[j].cached_data # NoBlob
        /\ log[i].cached_data # log[j].cached_data)
         => log[i].result # log[j].result

-----------------------------------------------------------------------------
(* When the transform is applied, checked under Spec.                      *)

\* This step stores the sentinel in the source slot of some script.
TransformApplied ==
  \E id \in 1..Len(scripts) :
    /\ scripts[id].source # Undefined
    /\ id <= Len(scripts') /\ scripts'[id].source = Undefined

\* Unit k was made by a compile that was given no cache blob.
CompiledWithoutBlob(k) ==
  /\ k \in 1..Len(units)
  /\ units[k].cachedDataRejected = "unset"
  /\ (k = Len(units) => pc # "cache")

\* C25: a step of New stores the sentinel only in a sourceless call that
\* was given a cache blob, whose compile succeeded and whose blob was not
\* rejected; and a unit compiled from a non-empty text that parses, without
\* a cache blob, has that text when it is made and in every state
\* afterwards.
C25_TransformOnlyOnAcceptedSourcelessConsume ==
  /\ [][TransformApplied
          => /\ call.sourceless
             /\ call.cached_data # NoBlob
             /\ call.v8_script # NoScript
             /\ ~call.rejected]_vars
  /\ [][(/\ pc = "reset" /\ pc' = "cache"
         /\ call.cached_data = NoBlob
         /\ call.code # "" /\ Parses(call.code))
          => scripts'[units'[Len(units')].script].source = call.code]_vars
  /\ [][\A k \in 1..Len(units) :
          (CompiledWithoutBlob(k) /\ SourceOf(k) = "a")
            => SourceOf(k)' = SourceOf(k)]_vars

-----------------------------------------------------------------------------
(* The array reorder fills, checked under SpecSlots.                       *)

\* C26: reorder writes no more entries into nargv than the argc + 64 slots
\* it allocated, whatever the argument count and the marker block.
C26_NeverWritesPastNargv ==
  (lpc \notin {"off", "main"}) => c <= NargvSlots(argc)

-----------------------------------------------------------------------------
(* build() of build.ts: a chain of awaited calls. A call is started, is in *)
(* flight, and settles as fulfilled or rejected; the trace keeps every     *)
(* start and every end in the order they happen.                           *)

\* The longest patch list of the model.
MaxPatches == 2

PatchNames == {"a.patch", "b.patch"}

\* Lists of patch file names: what applyPatches finds in patches.json for
\* the version.
PatchLists == UNION { [1..n -> PatchNames] : n \in 0..MaxPatches }

\* Only the calls of build() itself are awaited, not the spawn of a patch.
AwaitedExceptPatch(step) == step.op # "patch"

\* Every call in build() and in applyPatches' loop is awaited.
Awaited(step) == TRUE

\* What a call that ran to its end does to the file system.
Effect(step, disk) ==
  CASE step.op = "fs.remove" -> [disk EXCEPT !.buildPath = "absent"]
    [] step.op = "fs.mkdirp" /\ step.arg = "buildPath"
         -> [disk EXCEPT !.buildPath = "present"]
    [] step.op = "fs.copy" -> [disk EXCEPT !.local = "output"]
    [] step.op = "fs.promises.writeFile"
         -> [disk EXCEPT !.sha256sum = "outputHash"]
    [] OTHER -> disk

\* The continuation of build() runs: nothing it awaits is still in flight.
Resumed ==
  /\ build.state = "pending"
  /\ \A s \in build.inflight : ~Awaited(s)

\* build() at label calls step and goes on to label next.
Call(label, step, next) ==
  /\ Resumed
  /\ build.pc = label
  /\ build' = [build EXCEPT
       !.pc = next,
       !.inflight = @ \cup {step},
       !.trace = Append(@, [ev |-> "start", op |-> step.op, arg |-> step.arg,
                            outcome |-> "pending"])]
  /\ UNCHANGED <<engineVars, log, launchVars, loaderVars, sanity>>

\* await fs.remove(buildPath)
RemoveBuildPath ==
  Call("remove", [op |-> "fs.remove", arg |-> "buildPath"], "mkdirp")

\* await fs.mkdirp(buildPath)
MakeBuildPath ==
  Call("mkdirp", [op |-> "fs.mkdirp", arg |-> "buildPath"], "gitClone")

\* await gitClone(nodeVersion)
GitClone ==
  Call("gitClone", [op |-> "gitClone", arg |-> "nodeVersion"], "gitResetHard")

\* await gitResetHard(nodeVersion)
GitResetHard ==
  Call("gitResetHard", [op |-> "gitResetHard", arg |-> "commit"],
       "applyPatches")

\* applyPatches: one turn of the loop, await spawn('patch', ...)
ApplyPatch ==
  /\ build.i <= Len(build.patches)
  /\ Call("applyPatches", [op |-> "patch", arg |-> build.patches[build.i]],
          "nextPatch")

\* applyPatches: the loop goes to the next patch
NextPatch ==
  /\ Resumed
  /\ build.pc = "nextPatch"
  /\ build' = [build EXCEPT !.i = @ + 1, !.pc = "applyPatches"]
  /\ UNCHANGED <<engineVars, log, launchVars, loaderVars, sanity>>

\* applyPatches: the loop is over and applyPatches returns
PatchesApplied ==
  /\ Resumed
  /\ build.pc = "applyPatches"
  /\ build.i > Len(build.patches)
  /\ build' = [build EXCEPT !.pc = "nullWasmFiles"]
  /\ UNCHANGED <<engineVars, log, launchVars, loaderVars, sanity>>

\* await nullWasmFiles()
NullWasmFiles ==
  Call("nullWasmFiles", [op |-> "nullWasmFiles", arg |-> "nodePath"],
       "minifyInternalJS")

\* await minifyInternalJS()
MinifyInternalJS ==
  Call("minifyInternalJS", [op |-> "minifyInternalJS", arg |-> "nodePath"],
       "compile")

\* const output = await compile(nodeVersion, targetArch, targetPlatform)
Compile ==
  Call("compile",
       [op |-> "compile",
        arg |-> IF build.win THEN "compileOnWindows" ELSE "compileOnUnix"],
       "hash")

\* const outputHash = await hash(output)
Hash ==
  Call("hash", [op |-> "hash", arg |-> "output"], "mkdirpLocal")

\* await fs.mkdirp(path.dirname(local))
MakeLocalDir ==
  Call("mkdirpLocal", [op |-> "fs.mkdirp", arg |-> "dirname(local)"], "copy")

\* await fs.copy(output, local)
CopyOutput ==
  Call("copy", [op |-> "fs.copy", arg |-> "local"], "writeFile")

\* await fs.promises.writeFile(`${local}.sha256sum`, ...)
WriteChecksum ==
  Call("writeFile",
       [op |-> "fs.promises.writeFile", arg |-> "local.sha256sum"],
       "removeAtEnd")

\* await fs.remove(buildPath), the last statement
RemoveBuildPathAtEnd ==
  Call("removeAtEnd", [op |-> "fs.remove", arg |-> "buildPath"], "return")

\* build() runs off its end: its promise is fulfilled
BuildReturns ==
  /\ Resumed
  /\ build.pc = "return"
  /\ build' = [build EXCEPT !.state = "fulfilled"]
  /\ UNCHANGED <<engineVars, log, launchVars, loaderVars, sanity>>

\* A call in flight settles. A rejected call may have done its work on the
\* file system in part; the rejection of an awaited call is thrown out of
\* build().
Settle(step, outcome, applied) ==
  /\ step \in build.inflight
  /\ build' = [build EXCEPT
       !.inflight = @ \ {step},
       !.trace = Append(@, [ev |-> "end", op |-> step.op, arg |-> step.arg,
                            outcome |-> outcome]),
       !.disk = IF outcome = "fulfilled" \/ applied
                  THEN Effect(step, @) ELSE @,
       !.state = IF outcome = "rejected" /\ Awaited(step) /\ @ = "pending"
                   THEN "rejected" ELSE @]
  /\ UNCHANGED <<engineVars, log, launchVars, loaderVars, sanity>>

BuildInit ==
  /\ InitEngineIdle /\ log = <<>> /\ sanity = NoSanity
  /\ argc = 0 /\ argv = <<>> /\ BAKERY = <<>>
  /\ PKG_EXECPATH = [set |-> FALSE, value |-> ""]
  /\ lpc = "off" /\ nargv = <<>> /\ c = 0
  /\ started = [argc |-> 0, argv |-> <<>>, args |-> <<>>]
  /\ InitLoaderIdle
  /\ \E patches \in PatchLists, win \in BOOLEAN,
        buildPath \in {"absent", "present"}, local \in {"absent", "old"} :
       build = [NoBuild EXCEPT
                  !.state = "pending", !.pc = "remove", !.i = 1,
                  !.patches = patches, !.win = win,
                  !.disk = [buildPath |-> buildPath, local |-> local,
                            sha256sum |-> local]]

BuildNext ==
  \/ RemoveBuildPath
  \/ MakeBuildPath
  \/ GitClone
  \/ GitResetHard
  \/ ApplyPatch
  \/ NextPatch
  \/ PatchesApplied
  \/ NullWasmFiles
  \/ MinifyInternalJS
  \/ Compile
  \/ Hash
  \/ MakeLocalDir
  \/ CopyOutput
  \/ WriteChecksum
  \/ RemoveBuildPathAtEnd
  \/ BuildReturns
  \/ \E step \in build.inflight, outcome \in {"fulfilled", "rejected"},
        applied \in BOOLEAN : Settle(step, outcome, applied)

SpecBuild == BuildInit /\ [][BuildNext]_vars

-----------------------------------------------------------------------------
(* The order of build()'s steps, checked under SpecBuild.                  *)

\* The steps in the order claimed, for a list of patches.
ClaimedOrder(patches) ==
  << [op |-> "fs.remove", arg |-> "buildPath"],
     [op |-> "fs.mkdirp", arg |-> "buildPath"],
     [op |-> "gitClone", arg |-> "nodeVersion"],
     [op |-> "gitResetHard", arg |-> "commit"] >>
  \o [k \in 1..Len(patches) |-> [op |-> "patch", arg |-> patches[k]]]
  \o << [op |-> "nullWasmFiles", arg |-> "nodePath"],
        [op |-> "minifyInternalJS", arg |-> "nodePath"],
        [op |-> "compile",
         arg |-> IF build.win THEN "compileOnWindows" ELSE "compileOnUnix"],
        [op |-> "hash", arg |-> "output"],
        [op |-> "fs.copy", arg |-> "local"],
        [op |-> "fs.promises.writeFile", arg |-> "local.sha256sum"],
        [op |-> "fs.remove", arg |-> "buildPath"] >>

\* The claimed steps that were started, in the order of their start (the
\* directory made for the destination is not one of them).
StartedSteps ==
  LET starts == SelectSeq(build.trace,
                  LAMBDA e : e.ev = "start"
                             /\ ~(e.op = "fs.mkdirp" /\ e.arg = "dirname(local)"))
  IN [k \in 1..Len(starts) |-> [op |-> starts[k].op, arg |-> starts[k].arg]]

IsPrefix(s, t) == Len(s) <= Len(t) /\ s = SubSeq(t, 1, Len(s))

\* The compile has ended and was fulfilled.
CompileSucceeded ==
  \E k \in 1..Len(build.trace) :
    /\ build.trace[k].ev = "end" /\ build.trace[k].op = "compile"
    /\ build.trace[k].outcome = "fulfilled"

\* C27: the steps of build() start in the claimed order, every patch of the
\* list in its turn; a step starts only when the step before it has ended
\* and was fulfilled; the destination and its checksum file are written
\* only after a fulfilled compile; after a rejected step no step starts and
\* the build is rejected; a fulfilled build has run all the steps.
C27_BuildStepsInOrder ==
  LET trace == build.trace
  IN /\ IsPrefix(StartedSteps, ClaimedOrder(build.patches))
     /\ \A k \in 1..Len(trace) :
          /\ trace[k].ev = (IF k % 2 = 1 THEN "start" ELSE "end")
          /\ trace[k].ev = "end"
               => (trace[k].op = trace[k - 1].op
                     /\ trace[k].arg = trace[k - 1].arg)
          /\ (trace[k].ev = "start" /\ k > 1)
               => trace[k - 1].outcome = "fulfilled"
          /\ (trace[k].ev = "end" /\ trace[k].outcome = "rejected")
               => (k = Len(trace) /\ build.state = "rejected"
                     /\ build.inflight = {})
     /\ (build.disk.local = "output" \/ build.disk.sha256sum = "outputHash")
          => CompileSucceeded
     /\ build.state = "fulfilled"
          => StartedSteps = ClaimedOrder(build.patches)

\* A build with two different patches has run to its end.
C27_Witness ==
  /\ build.state = "fulfilled"
  /\ Len(build.patches) = 2
  /\ build.patches[1] # build.patches[2]
  /\ build.disk = [buildPath |-> "absent", local |-> "output",
                   sha256sum |-> "outputHash"]

====
